---- MODULE Spec2Model ----
(***************************************************************************)
(* ModernTensor client scripts.                                            *)
(*                                                                         *)
(*   quick_start.py             the orchestration workflow: main() runs a  *)
(*                              fixed list of aptos CLI commands through   *)
(*                              run_cmd().                                 *)
(*   examples/python_client.py  ModernTensorClient: four view wrappers and *)
(*                              four entry operations over the Aptos SDK.  *)
(*                                                                         *)
(* A run executes one of the two scripts (variable prog).  Everything the  *)
(* scripts call outside the repository (the aptos CLI, the SDK's           *)
(* RestClient and serializer) is a nondeterministic choice over the        *)
(* outcomes the call can have.                                             *)
(***************************************************************************)
EXTENDS Integers, Sequences, FiniteSets

VARIABLES
    prog,       \* which script this process runs
    pc,         \* quick_start.main: the statement about to run
    steps,      \* quick_start: the steps announced by print_step, in order
    calls,      \* quick_start: the run_cmd calls made, in order
    sleeps,     \* quick_start: the steps after which time.sleep ran
    clock,      \* quick_start: seconds spent in time.sleep
    exitCode,   \* quick_start: -1 while running, then the process exit code
    op,         \* python_client: the method called last ("none" before any)
    stage,      \* python_client: where that call stands
    args,       \* python_client: the Python kinds of the values passed
    payload,    \* python_client: the typed arguments handed to EntryFunction.natural
    trace,      \* python_client: the stages the call went through, in order
    submitted,  \* python_client: payloads handed to submit_bcs_transaction by the call
    result,     \* python_client: the tuple client.view returned
    ret,        \* python_client: what the call returned to its caller
    error       \* python_client: what raised in the call ("none" when nothing did)

wfVars == <<pc, steps, calls, sleeps, clock, exitCode>>
clVars == <<op, stage, args, payload, trace, submitted, result, ret, error>>
vars == <<prog, pc, steps, calls, sleeps, clock, exitCode,
          op, stage, args, payload, trace, submitted, result, ret, error>>

(***************************************************************************)
(* quick_start.py                                                          *)
(***************************************************************************)

\* The seven steps main() announces with print_step(1..7, ...).
Steps ==
    <<"CheckDeployment", "ReadStats", "ReadFees", "CreateSubnet",
      "RegisterMiner", "RegisterValidator", "ReadFinalStats">>

\* time.sleep(3)
SettleInterval == 3

\* What subprocess.run can do: return with code 0, return with another
\* code, or raise.
Outcomes == {"zero", "nonzero", "exception"}

\* run_cmd's return value: result.returncode == 0, and False from the
\* except branch.
run_cmd(outcome) == outcome = "zero"

\* "aptos move view --function-id ...::moderntensor::<fn> [--args ...]"
ViewCmd(fn, cmdArgs) == [kind |-> "view", fn |-> fn, args |-> cmdArgs]

\* "aptos move run --assume-yes --function-id ...::moderntensor::<fn> --args ..."
RunCmd(fn, cmdArgs) == [kind |-> "run", fn |-> fn, args |-> cmdArgs]

Arg(tag, val) == [tag |-> tag, val |-> val]

subnet_cmd ==
    RunCmd("create_subnet",
           <<Arg("u64", "999"),
             Arg("string", "Quick Start Subnet"),
             Arg("string", "Test subnet created by quick start script"),
             Arg("u64", "5"),
             Arg("u64", "50"),
             Arg("u64", "1000000"),
             Arg("u64", "1000000"),
             Arg("bool", "false")>>)

miner_cmd ==
    RunCmd("register_miner",
           <<Arg("hex", "717569636b5f6d696e65725f31"),
             Arg("u64", "999"),
             Arg("u64", "10000000"),
             Arg("hex", "717569636b5f6d696e65725f77616c6c6574"),
             Arg("hex", "687474703a2f2f717569636b2d6d696e65722e6578616d706c652e636f6d")>>)

validator_cmd ==
    RunCmd("register_validator",
           <<Arg("hex", "717569636b5f76616c696461746f725f31"),
             Arg("u64", "999"),
             Arg("u64", "50000000"),
             Arg("u64", "10000000"),
             Arg("hex", "717569636b5f76616c696461746f725f77616c6c6574"),
             Arg("hex", "687474703a2f2f717569636b2d76616c696461746f722e6578616d706c652e636f6d")>>)

\* The command each statement of main() hands to run_cmd.
Command(p) ==
    CASE p = "CheckDeployment"   -> ViewCmd("get_enhanced_network_stats", <<>>)
      [] p = "ReadStats"         -> ViewCmd("get_enhanced_network_stats", <<>>)
      [] p = "ReadFees"          -> ViewCmd("get_registration_fee_info", <<>>)
      [] p = "CreateSubnet"      -> subnet_cmd
      [] p = "RegisterMiner"     -> miner_cmd
      [] p = "RegisterValidator" -> validator_cmd
      [] p = "ReadFinalStats"    -> ViewCmd("get_enhanced_network_stats", <<>>)
      [] p = "SubnetInfo"        -> ViewCmd("get_subnet_info", <<Arg("u64", "999")>>)
      [] p = "TreasuryStats"     -> ViewCmd("get_treasury_stats", <<>>)

\* The step a statement belongs to: the last two view commands of main()
\* run under step 7's heading.
StepOf(p) ==
    IF p \in {"SubnetInfo", "TreasuryStats"} THEN "ReadFinalStats" ELSE p

\* The statement that follows p in main()'s text.
SuccessorSkipping(p) ==
    CASE p = "CheckDeployment"   -> "ReadStats"
      [] p = "ReadStats"         -> "CreateSubnet"
      [] p = "ReadFees"          -> "CreateSubnet"
      [] p = "CreateSubnet"      -> "RegisterMiner"
      [] p = "RegisterMiner"     -> "RegisterValidator"
      [] p = "RegisterValidator" -> "ReadFinalStats"
      [] p = "ReadFinalStats"    -> "SubnetInfo"
      [] p = "SubnetInfo"        -> "TreasuryStats"
      [] p = "TreasuryStats"     -> "Completed"

Successor(p) ==
    CASE p = "CheckDeployment"   -> "ReadStats"
      [] p = "ReadStats"         -> "ReadFees"
      [] p = "ReadFees"          -> "CreateSubnet"
      [] p = "CreateSubnet"      -> "RegisterMiner"
      [] p = "RegisterMiner"     -> "RegisterValidator"
      [] p = "RegisterValidator" -> "ReadFinalStats"
      [] p = "ReadFinalStats"    -> "SubnetInfo"
      [] p = "SubnetInfo"        -> "TreasuryStats"
      [] p = "TreasuryStats"     -> "Completed"

\* Where main() goes after the run_cmd of statement p returned ok: only
\* step 1 tests the result to leave (sys.exit(1)).
AfterCmdNoGate(p, ok) == Successor(p)

AfterCmdAbortOnFailure(p, ok) == IF ok THEN Successor(p) ELSE "NotDeployed"

AfterCmd(p, ok) ==
    IF p = "CheckDeployment" /\ ~ok THEN "NotDeployed" ELSE Successor(p)

\* The seconds main() sleeps after the run_cmd of statement p returned ok:
\* "if run_cmd(...): time.sleep(3)" for the three transactions, nothing
\* for the views.
SettleAlways(p, ok) ==
    IF p \in {"CreateSubnet", "RegisterMiner", "RegisterValidator"}
    THEN SettleInterval ELSE 0

Settle(p, ok) ==
    IF p \in {"CreateSubnet", "RegisterMiner", "RegisterValidator"} /\ ok
    THEN SettleInterval ELSE 0

\* The exit code of a run that ended at statement p: sys.exit(1) at the
\* gate, and 0 when main() returns.
ExitCodeByFailures(p, log) ==
    IF p = "NotDeployed" \/ \E i \in 1..Len(log) : ~run_cmd(log[i].outcome)
    THEN 1 ELSE 0

ExitCode(p, log) == IF p = "NotDeployed" THEN 1 ELSE 0

\* print_step(n, ...) runs once, before the first command of a step.
print_step(p) == IF StepOf(p) = p THEN Append(steps, p) ELSE steps

\* One statement of main(): announce the step, run the command, sleep if
\* the statement says so, and go on (or exit at the gate).
Statement(p, outcome) ==
    LET ok == run_cmd(outcome)
        next == AfterCmd(p, ok)
        log == Append(calls, [step |-> StepOf(p), cmd |-> Command(p),
                              outcome |-> outcome])
    IN  /\ prog = "quick_start"
        /\ pc = p
        /\ steps' = print_step(p)
        /\ calls' = log
        /\ sleeps' = IF Settle(p, ok) > 0 THEN Append(sleeps, StepOf(p)) ELSE sleeps
        /\ clock' = clock + Settle(p, ok)
        /\ pc' = next
        /\ exitCode' = IF next = "NotDeployed" THEN ExitCode(next, log) ELSE exitCode
        /\ UNCHANGED prog
        /\ UNCHANGED clVars

CheckDeployment == \E o \in Outcomes : Statement("CheckDeployment", o)
ReadStats == \E o \in Outcomes : Statement("ReadStats", o)
ReadFees == \E o \in Outcomes : Statement("ReadFees", o)
CreateSubnet == \E o \in Outcomes : Statement("CreateSubnet", o)
RegisterMiner == \E o \in Outcomes : Statement("RegisterMiner", o)
RegisterValidator == \E o \in Outcomes : Statement("RegisterValidator", o)
ReadFinalStats == \E o \in Outcomes : Statement("ReadFinalStats", o)
SubnetInfo == \E o \in Outcomes : Statement("SubnetInfo", o)
TreasuryStats == \E o \in Outcomes : Statement("TreasuryStats", o)

\* The closing prints of main(), and its return.
Completed ==
    /\ prog = "quick_start"
    /\ pc = "Completed"
    /\ pc' = "Done"
    /\ exitCode' = ExitCode("Done", calls)
    /\ UNCHANGED <<prog, steps, calls, sleeps, clock,
                   op, stage, args, payload, trace, submitted, result, ret, error>>

WorkflowNext ==
    \/ CheckDeployment
    \/ ReadStats
    \/ ReadFees
    \/ CreateSubnet
    \/ RegisterMiner
    \/ RegisterValidator
    \/ ReadFinalStats
    \/ SubnetInfo
    \/ TreasuryStats
    \/ Completed

(***************************************************************************)
(* examples/python_client.py                                               *)
(***************************************************************************)

\* The gateway's values are opaque to the client: 1..MaxValue stands for them.
MaxValue == 2

\* How many positions longer than the record a returned tuple may be.
MaxExtra == 1

\* How many of a call's arguments may be of another Python kind than the
\* method's signature names.
MaxMismatch == 1

Values == 1..MaxValue

\* The tuple of the documented end-to-end scenario.
ExampleStats == <<3, 10, 2, 500000000, 3, 8>>

Field(name, index) == [field |-> name, index |-> index]

\* The dict each view wrapper returns: key |-> result[index].
network_stats_transposed ==
    <<Field("total_validators", 0), Field("total_miners", 1),
      Field("total_subnets", 2), Field("total_stake", 3),
      Field("active_validators", 5), Field("active_miners", 4)>>

network_stats_fields ==
    <<Field("total_validators", 0), Field("total_miners", 1),
      Field("total_subnets", 2), Field("total_stake", 3),
      Field("active_validators", 4), Field("active_miners", 5)>>

fee_info_fields ==
    <<Field("miner_fee", 0), Field("validator_fee", 1),
      Field("subnet_fee", 2), Field("permit_fee", 3)>>

treasury_stats_fields ==
    <<Field("total_burned", 0), Field("total_treasury_fees", 1),
      Field("total_registrations", 2), Field("total_permits", 3)>>

subnet_info_fields ==
    <<Field("subnet_id", 0), Field("name", 1), Field("description", 2),
      Field("max_validators", 3), Field("max_miners", 4),
      Field("current_validators", 5), Field("current_miners", 6)>>

ViewFields(name) ==
    CASE name = "get_network_stats"  -> network_stats_fields
      [] name = "get_fee_info"       -> fee_info_fields
      [] name = "get_treasury_stats" -> treasury_stats_fields
      [] name = "get_subnet_info"    -> subnet_info_fields

ViewOps == {"get_network_stats", "get_fee_info", "get_treasury_stats", "get_subnet_info"}

\* result[i] raises IndexError exactly when i >= len(result).
IndexErrorNever(fields, t) == FALSE

IndexError(fields, t) == \E k \in 1..Len(fields) : fields[k].index >= Len(t)

\* The dict literal: every key read from its own position of the tuple
\* (Python counts from 0, a TLA+ sequence from 1).  A position the tuple
\* lacks is only reached when IndexError was not raised first.
Decode(fields, t) ==
    [f \in {fields[k].field : k \in 1..Len(fields)} |->
        LET k == CHOOSE j \in 1..Len(fields) : fields[j].field = f
        IN  IF fields[k].index < Len(t) THEN t[fields[k].index + 1] ELSE 0]

\* What client.view can return: any tuple, of any length up to MaxExtra
\* beyond the record.
GatewayTuples(name) ==
    UNION {[1..n -> Values] : n \in 0..(Len(ViewFields(name)) + MaxExtra)}
      \cup (IF name = "get_network_stats" THEN {ExampleStats} ELSE {})

Finished == stage \in {"returned", "raised"}

\* The client's methods hold no await: a call runs to its end before the
\* caller makes the next one.
CanCall == prog = "python_client" /\ stage = "idle"

\* A view wrapper whose client.view(...) raised: the except branch prints
\* and re-raises.
ViewUnreachable(name) ==
    /\ op' = name
    /\ args' = IF name = "get_subnet_info" THEN <<"int">> ELSE <<>>
    /\ trace' = <<"view", "print_error">>
    /\ result' = <<>>
    /\ ret' = <<>>
    /\ error' = "view"
    /\ stage' = "raised"
    /\ UNCHANGED <<prog, payload, submitted>>
    /\ UNCHANGED wfVars

\* A view wrapper whose client.view(...) returned the tuple t: the dict
\* is built from it, or the IndexError is printed and re-raised.
ViewReturns(name, t) ==
    LET fields == ViewFields(name)
        bad == IndexError(fields, t)
    IN  /\ op' = name
        /\ args' = IF name = "get_subnet_info" THEN <<"int">> ELSE <<>>
        /\ result' = t
        /\ trace' = IF bad THEN <<"view", "print_error">> ELSE <<"view">>
        /\ ret' = IF bad THEN <<>> ELSE Decode(fields, t)
        /\ error' = IF bad THEN "index" ELSE "none"
        /\ stage' = IF bad THEN "raised" ELSE "returned"
        /\ UNCHANGED <<prog, payload, submitted>>
        /\ UNCHANGED wfVars

\* One call of a view wrapper: client.view(...) raises or returns a tuple.
View(name) ==
    /\ CanCall
    /\ \/ ViewUnreachable(name)
       \/ \E t \in GatewayTuples(name) : ViewReturns(name, t)

get_network_stats == View("get_network_stats")
get_fee_info == View("get_fee_info")
get_treasury_stats == View("get_treasury_stats")
get_subnet_info == View("get_subnet_info")

\* The caller has its answer (a value or an exception) and goes on to its
\* next call: nothing of the finished call is kept by the client.
CallerContinues ==
    /\ prog = "python_client"
    /\ Finished
    /\ op' = "none"
    /\ stage' = "idle"
    /\ args' = <<>>
    /\ payload' = <<>>
    /\ trace' = <<>>
    /\ submitted' = <<>>
    /\ result' = <<>>
    /\ ret' = <<>>
    /\ error' = "none"
    /\ UNCHANGED prog
    /\ UNCHANGED wfVars

ViewNext ==
    \/ get_network_stats
    \/ get_fee_info
    \/ get_treasury_stats
    \/ get_subnet_info

\* TransactionArgument(value, Serializer.<wire>); encoded marks the
\* arguments written <name>.encode().
TxArg(name, wire, encoded) == [name |-> name, wire |-> wire, encoded |-> encoded]

create_subnet_args_swapped ==
    <<TxArg("subnet_id", "u64", FALSE),
      TxArg("description", "str", FALSE),
      TxArg("name", "str", FALSE),
      TxArg("max_miners", "u64", FALSE),
      TxArg("max_validators", "u64", FALSE),
      TxArg("min_stake_validator", "u64", FALSE),
      TxArg("permits_required", "bool", FALSE),
      TxArg("min_stake_miner", "u64", FALSE)>>

create_subnet_args ==
    <<TxArg("subnet_id", "u64", FALSE),
      TxArg("name", "str", FALSE),
      TxArg("description", "str", FALSE),
      TxArg("max_validators", "u64", FALSE),
      TxArg("max_miners", "u64", FALSE),
      TxArg("min_stake_validator", "u64", FALSE),
      TxArg("min_stake_miner", "u64", FALSE),
      TxArg("permits_required", "bool", FALSE)>>

register_miner_args ==
    <<TxArg("uid", "bytes", TRUE),
      TxArg("subnet_id", "u64", FALSE),
      TxArg("stake", "u64", FALSE),
      TxArg("wallet_hash", "bytes", TRUE),
      TxArg("api_endpoint", "bytes", TRUE)>>

register_validator_args ==
    <<TxArg("uid", "bytes", TRUE),
      TxArg("subnet_id", "u64", FALSE),
      TxArg("stake", "u64", FALSE),
      TxArg("bond", "u64", FALSE),
      TxArg("wallet_hash", "bytes", TRUE),
      TxArg("api_endpoint", "bytes", TRUE)>>

purchase_validator_permit_args ==
    <<TxArg("subnet_id", "u64", FALSE)>>

EntryArgs(name) ==
    CASE name = "create_subnet"             -> create_subnet_args
      [] name = "register_miner"            -> register_miner_args
      [] name = "register_validator"        -> register_validator_args
      [] name = "purchase_validator_permit" -> purchase_validator_permit_args

EntryOps ==
    {"create_subnet", "register_miner", "register_validator", "purchase_validator_permit"}

\* The kinds of Python value a caller can pass (the annotations of the
\* method signatures are not enforced).
Kinds == {"int", "str", "bytes", "bool"}

\* The kind each parameter's annotation names: int for a u64, str for a
\* string and for the arguments the method encodes to bytes itself.
Annotated(a) ==
    CASE a.encoded      -> "str"
      [] a.wire = "u64" -> "int"
      [] a.wire = "str" -> "str"
      [] a.wire = "bool" -> "bool"

AnnotatedKinds(schema) == [i \in 1..Len(schema) |-> Annotated(schema[i])]

\* Argument lists with at most n values of another kind than annotated.
RECURSIVE KindVectors(_, _)
KindVectors(schema, n) ==
    IF n = 0 THEN {AnnotatedKinds(schema)}
    ELSE LET prev == KindVectors(schema, n - 1)
         IN  prev \cup {[v EXCEPT ![i] = k] : v \in prev, i \in 1..Len(schema), k \in Kinds}

Mismatches(schema, kinds) ==
    {i \in 1..Len(schema) : kinds[i] # Annotated(schema[i])}

\* <name>.encode() raises AttributeError for a value that is no str.
EncodeRaises(schema, kinds) ==
    \E i \in 1..Len(schema) : schema[i].encoded /\ kinds[i] # "str"

\* What the SDK's EntryFunction.natural can do with the typed arguments:
\* serialize them, or raise on a value its serializer does not take.
SerializerOutcomes(schema, kinds) ==
    IF Mismatches(schema, kinds) = {} THEN {"ok"} ELSE {"ok", "raise"}

\* Whether the payload construction of the try block raises.
BuildRaisesOnAnyMismatch(schema, kinds, ser) ==
    Mismatches(schema, kinds) # {} \/ ser = "raise"

BuildRaises(schema, kinds, ser) ==
    EncodeRaises(schema, kinds) \/ ser = "raise"

\* The typed arguments of the payload: name and wire type, in order.
Payload(schema) == [i \in 1..Len(schema) |-> [name |-> schema[i].name, wire |-> schema[i].wire]]

\* Where a call stands after submit_bcs_transaction returned (ok) or raised.
AfterSubmitRetrying(ok) == IF ok THEN "submitted" ELSE "signed"

AfterSubmit(ok) == IF ok THEN "submitted" ELSE "raised"

\* An entry operation is called with values of the given kinds and builds
\* its payload: EntryFunction.natural(..., [TransactionArgument(...), ...]).
Build(name, kinds, ser) ==
    LET schema == EntryArgs(name)
        bad == BuildRaises(schema, kinds, ser)
    IN  /\ op' = name
        /\ args' = kinds
        /\ payload' = IF bad THEN <<>> ELSE Payload(schema)
        /\ trace' = IF bad THEN <<"build", "print_error">> ELSE <<"build">>
        /\ error' = CASE EncodeRaises(schema, kinds) -> "encode"
                      [] ~EncodeRaises(schema, kinds) /\ ser = "raise" -> "serialize"
                      [] OTHER -> "none"
        /\ stage' = IF bad THEN "raised" ELSE "built"
        /\ submitted' = <<>>
        /\ result' = <<>>
        /\ ret' = <<>>
        /\ UNCHANGED prog
        /\ UNCHANGED wfVars

Call(name) ==
    /\ CanCall
    /\ \E kinds \in KindVectors(EntryArgs(name), MaxMismatch) :
          \E ser \in SerializerOutcomes(EntryArgs(name), kinds) :
              Build(name, kinds, ser)

create_subnet == Call("create_subnet")
register_miner == Call("register_miner")
register_validator == Call("register_validator")
purchase_validator_permit == Call("purchase_validator_permit")

\* client.create_bcs_signed_transaction(account, TransactionPayload(payload))
Sign ==
    /\ prog = "python_client"
    /\ stage = "built"
    /\ \E ok \in BOOLEAN :
        /\ stage' = IF ok THEN "signed" ELSE "raised"
        /\ trace' = IF ok THEN Append(trace, "sign")
                    ELSE trace \o <<"sign", "print_error">>
        /\ error' = IF ok THEN error ELSE "sign"
    /\ UNCHANGED <<prog, op, args, payload, submitted, result, ret>>
    /\ UNCHANGED wfVars

\* tx_hash = client.submit_bcs_transaction(signed_txn)
Submit ==
    /\ prog = "python_client"
    /\ stage = "signed"
    /\ submitted' = Append(submitted, payload)
    /\ \E ok \in BOOLEAN :
        /\ stage' = AfterSubmit(ok)
        /\ trace' = IF ok THEN Append(trace, "submit")
                    ELSE trace \o <<"submit", "print_error">>
        /\ error' = IF ok THEN error ELSE "submit"
    /\ UNCHANGED <<prog, op, args, payload, result, ret>>
    /\ UNCHANGED wfVars

\* Where a call stands after wait_for_transaction returned (ok) or raised:
\* "return tx_hash" follows the wait only when it did not raise.
AfterWaitIgnoringFailure(ok) == "returned"

AfterWait(ok) == IF ok THEN "returned" ELSE "raised"

\* client.wait_for_transaction(tx_hash), then the success print and
\* "return tx_hash".
Wait ==
    /\ prog = "python_client"
    /\ stage = "submitted"
    /\ \E ok \in BOOLEAN :
        /\ stage' = AfterWait(ok)
        /\ trace' = IF ok THEN trace \o <<"wait", "print_ok">>
                    ELSE trace \o <<"wait", "print_error">>
        /\ ret' = IF ok THEN <<"tx_hash">> ELSE ret
        /\ error' = IF ok THEN error ELSE "wait"
    /\ UNCHANGED <<prog, op, args, payload, submitted, result>>
    /\ UNCHANGED wfVars

EntryNext ==
    \/ create_subnet
    \/ register_miner
    \/ register_validator
    \/ purchase_validator_permit
    \/ Sign
    \/ Submit
    \/ Wait

Init ==
    /\ prog \in {"quick_start", "python_client"}
    /\ pc = "CheckDeployment"
    /\ steps = <<>>
    /\ calls = <<>>
    /\ sleeps = <<>>
    /\ clock = 0
    /\ exitCode = -1
    /\ op = "none"
    /\ stage = "idle"
    /\ args = <<>>
    /\ payload = <<>>
    /\ trace = <<>>
    /\ submitted = <<>>
    /\ result = <<>>
    /\ ret = <<>>
    /\ error = "none"

Next == WorkflowNext \/ ViewNext \/ EntryNext \/ CallerContinues

Spec == Init /\ [][Next]_vars

\* The script runs on: every call of subprocess.run returns or raises, and
\* main() then executes its next statement.
FairSpec == Spec /\ WF_vars(WorkflowNext)

(***************************************************************************)
(* Properties                                                              *)
(***************************************************************************)

Range(s) == {s[i] : i \in 1..Len(s)}

IsPrefix(s, t) == Len(s) <= Len(t) /\ \A i \in 1..Len(s) : s[i] = t[i]

\* The first command of main(), the deployment check, was run and failed.
GateFailed == Len(calls) >= 1 /\ ~run_cmd(calls[1].outcome)

GatePassed == Len(calls) >= 1 /\ run_cmd(calls[1].outcome)

\* The run_cmd calls of the step s that failed.
FailedCalls(s) == {i \in 1..Len(calls) : calls[i].step = s /\ ~run_cmd(calls[i].outcome)}

TxSteps == {"CreateSubnet", "RegisterMiner", "RegisterValidator"}

\* C1: once the CheckDeployment command has failed, the workflow is in
\* NotDeployed with exit code 1 and that command is the only one ever
\* issued: no later step is announced, run or slept after.
C1_NoStepAfterFailedGate ==
    GateFailed =>
        /\ pc = "NotDeployed"
        /\ exitCode = 1
        /\ Len(calls) = 1
        /\ steps = <<"CheckDeployment">>
        /\ sleeps = <<>>

C1_Witness == GateFailed /\ pc = "NotDeployed" /\ calls[1].outcome = "exception"

\* C2: once CheckDeployment has succeeded, whatever the later commands
\* do, the run goes on until all seven steps were attempted (all nine
\* commands issued); a failed RegisterMiner is followed by
\* RegisterValidator and ReadFinalStats.
C2_LaterFailuresNeverStopTheRun ==
    /\ [](GatePassed => <>(pc = "Done" /\ steps = Steps /\ Len(calls) = 9))
    /\ \A s \in Range(Steps) \ {"CheckDeployment"} :
          [](FailedCalls(s) # {} => <>(pc = "Done" /\ steps = Steps))
    /\ [](FailedCalls("RegisterMiner") # {} =>
            <>({"RegisterValidator", "ReadFinalStats"} \subseteq {calls[i].step : i \in 1..Len(calls)}))

C2_Witness ==
    /\ pc = "Done"
    /\ FailedCalls("RegisterMiner") # {}
    /\ FailedCalls("ReadStats") # {}
    /\ {"RegisterValidator", "ReadFinalStats"} \subseteq {calls[i].step : i \in 1..Len(calls)}

C4_LinearStateMachine ==
    /\ IsPrefix(steps, Steps)
    /\ \A i \in 1..Len(calls) : calls[i].step \in Range(steps)
    /\ \A i, j \in 1..Len(calls) :
          i < j => \E a, b \in 1..Len(steps) :
                      a <= b /\ steps[a] = calls[i].step /\ steps[b] = calls[j].step
    /\ pc \in Range(Steps) => Steps[Len(steps) + 1] = pc
    /\ pc \in {"Completed", "Done"} =>
          steps = Steps /\ Range(Steps) = {calls[i].step : i \in 1..Len(calls)}

C4_Witness == pc = "Done" /\ steps = Steps /\ Len(calls) = 9

\* C5 as claimed: every transaction step whose command was issued has
\* paused for the settle interval, whatever the command's outcome.
C5_Original_PauseWhateverOutcome ==
    \A i \in 1..Len(calls) :
        calls[i].step \in TxSteps => calls[i].step \in Range(sleeps)

\* C5 amended: a transaction step pauses for the settle interval exactly
\* when its command succeeded; after a failed command the next step
\* begins at once, and no view step pauses.
C5_PauseOnlyAfterSuccess ==
    /\ \A i \in 1..Len(calls) :
          calls[i].step \in Range(sleeps) <=>
              (calls[i].step \in TxSteps /\ run_cmd(calls[i].outcome))
    /\ clock = SettleInterval * Len(sleeps)
    /\ Cardinality(Range(sleeps)) = Len(sleeps)

C5_Witness ==
    /\ pc = "RegisterValidator"
    /\ FailedCalls("CreateSubnet") # {}
    /\ "CreateSubnet" \notin Range(sleeps)
    /\ "RegisterMiner" \in Range(sleeps)
    /\ clock = SettleInterval

\* C6: a call of an entry operation hands at most one transaction to
\* submit_bcs_transaction: exactly one when it returned a hash, none when
\* it failed before submission, one when submission or the wait failed.
C6_AtMostOneSubmission ==
    op \in EntryOps =>
        /\ Len(submitted) <= 1
        /\ stage = "returned" => Len(submitted) = 1
        /\ error \in {"encode", "serialize", "sign"} => Len(submitted) = 0
        /\ error \in {"submit", "wait"} => Len(submitted) = 1

C6_Witness ==
    /\ op \in EntryOps
    /\ stage = "raised"
    /\ error = "submit"
    /\ Len(submitted) = 1

\* C7 as claimed: a call whose argument list holds a value of another
\* kind than the schema's is rejected before anything is signed or
\* submitted.
C7_Original_MismatchRejectedLocally ==
    (op \in EntryOps /\ Mismatches(EntryArgs(op), args) # {}) =>
        /\ submitted = <<>>
        /\ "sign" \notin Range(trace)

\* C7 amended: the client compares no value with the schema.  A call
\* fails only when something raised; it is rejected before signing only
\* when a value to encode is no str or the SDK's serializer raised, and
\* then nothing is signed or submitted; every other call, mismatching
\* values included, goes on to signing with the schema's wire types.
C7_NoLocalSchemaCheck ==
    op \in EntryOps =>
        /\ stage = "raised" => error # "none"
        /\ error = "encode" <=> EncodeRaises(EntryArgs(op), args)
        /\ error \in {"encode", "serialize"} =>
              /\ stage = "raised"
              /\ payload = <<>>
              /\ submitted = <<>>
              /\ "sign" \notin Range(trace)
        /\ error \notin {"encode", "serialize"} => payload = Payload(EntryArgs(op))

C7_Witness ==
    /\ op = "create_subnet"
    /\ args[1] = "str"
    /\ Len(submitted) = 1
    /\ submitted[1][1] = [name |-> "subnet_id", wire |-> "u64"]

\* The records of the data model, field by field in order.
RecordFields(name) ==
    CASE name = "get_network_stats" ->
            <<"total_validators", "total_miners", "total_subnets",
              "total_stake", "active_validators", "active_miners">>
      [] name = "get_fee_info" ->
            <<"miner_fee", "validator_fee", "subnet_fee", "permit_fee">>
      [] name = "get_treasury_stats" ->
            <<"total_burned", "total_treasury_fees", "total_registrations",
              "total_permits">>
      [] name = "get_subnet_info" ->
            <<"subnet_id", "name", "description", "max_validators",
              "max_miners", "current_validators", "current_miners">>

\* C8: a view wrapper that returned a record maps position i of the
\* gateway's tuple to the i-th field of its record, and the record has
\* exactly those fields.
C8_DecodePreservesOrder ==
    (op \in ViewOps /\ stage = "returned") =>
        /\ DOMAIN ret = Range(RecordFields(op))
        /\ \A i \in 1..Len(RecordFields(op)) : ret[RecordFields(op)[i]] = result[i]

C8_Witness ==
    /\ op = "get_network_stats"
    /\ stage = "returned"
    /\ result = ExampleStats
    /\ ret["total_validators"] = 3
    /\ ret["total_miners"] = 10
    /\ ret["total_subnets"] = 2
    /\ ret["total_stake"] = 500000000
    /\ ret["active_validators"] = 3
    /\ ret["active_miners"] = 8

\* The documented table of typed arguments.
Doc(name, type) == [name |-> name, type |-> type]

DocumentedArgs(name) ==
    CASE name = "create_subnet" ->
            <<Doc("subnet_id", "uint64"), Doc("name", "string"),
              Doc("description", "string"), Doc("max_validators", "uint64"),
              Doc("max_miners", "uint64"), Doc("min_stake_validator", "uint64"),
              Doc("min_stake_miner", "uint64"), Doc("permits_required", "bool")>>
      [] name = "register_miner" ->
            <<Doc("uid", "bytes"), Doc("subnet_id", "uint64"),
              Doc("stake", "uint64"), Doc("wallet_hash", "bytes"),
              Doc("api_endpoint", "bytes")>>
      [] name = "register_validator" ->
            <<Doc("uid", "bytes"), Doc("subnet_id", "uint64"),
              Doc("stake", "uint64"), Doc("bond", "uint64"),
              Doc("wallet_hash", "bytes"), Doc("api_endpoint", "bytes")>>
      [] name = "purchase_validator_permit" ->
            <<Doc("subnet_id", "uint64")>>

\* The documented name of the wire type a Serializer method writes.
SerializerType(wire) ==
    CASE wire = "u64"   -> "uint64"
      [] wire = "str"   -> "string"
      [] wire = "bytes" -> "bytes"
      [] wire = "bool"  -> "bool"

\* The documented name of the wire type an aptos CLI "--args <tag>:" has.
CliType(tag) ==
    CASE tag = "u64"    -> "uint64"
      [] tag = "string" -> "string"
      [] tag = "hex"    -> "bytes"
      [] tag = "bool"   -> "bool"

Documented(p, name) ==
    /\ Len(p) = Len(DocumentedArgs(name))
    /\ \A i \in 1..Len(p) :
          /\ p[i].name = DocumentedArgs(name)[i].name
          /\ SerializerType(p[i].wire) = DocumentedArgs(name)[i].type

\* C9: every payload an entry operation builds, and every payload it
\* submits, lists the documented arguments in the documented order with
\* the documented wire types; the workflow's transaction commands pass
\* arguments of the same types in the same order.
C9_PayloadMatchesTable ==
    /\ (op \in EntryOps /\ payload # <<>>) => Documented(payload, op)
    /\ \A k \in 1..Len(submitted) : Documented(submitted[k], op)
    /\ \A k \in 1..Len(calls) :
          calls[k].cmd.kind = "run" =>
              LET a == calls[k].cmd.args
                  d == DocumentedArgs(calls[k].cmd.fn)
              IN  /\ Len(a) = Len(d)
                  /\ \A i \in 1..Len(a) : CliType(a[i].tag) = d[i].type

C9_Witness ==
    /\ op = "create_subnet"
    /\ stage = "returned"
    /\ Mismatches(create_subnet_args, args) = {}
    /\ Len(submitted) = 1
    /\ Len(submitted[1]) = 8

\* The gateway answered the view call with a tuple (it did not raise).
Answered == op \in ViewOps /\ Finished /\ error # "view"

\* C10 as claimed: a view wrapper fails, returning no record, whenever
\* the gateway's tuple is shorter or longer than the record.
C10_Original_AnyArityMismatchFails ==
    (Answered /\ Len(result) # Len(RecordFields(op))) =>
        stage = "raised" /\ ret = <<>>

\* C10 amended: a view wrapper fails, returning no record, exactly when
\* the gateway's tuple is shorter than the record; a longer tuple is
\* decoded from its leading positions and the surplus is dropped.
C10_OnlyShortTupleFails ==
    Answered =>
        /\ Len(result) < Len(RecordFields(op)) =>
              stage = "raised" /\ error = "index" /\ ret = <<>>
        /\ Len(result) >= Len(RecordFields(op)) =>
              /\ stage = "returned"
              /\ error = "none"
              /\ DOMAIN ret = Range(RecordFields(op))

C10_Witness ==
    /\ op = "get_fee_info"
    /\ stage = "returned"
    /\ Len(result) = Len(RecordFields(op)) + 1
    /\ ret["permit_fee"] = result[4]

\* The stages of an entry operation's try block, in the order of its text.
Stages == <<"build", "sign", "submit", "wait">>

IsStage(e) == e \in Range(Stages)

\* The stage in which each kind of error is raised.
StageOfError(e) ==
    CASE e \in {"encode", "serialize"} -> "build"
      [] e = "sign"   -> "sign"
      [] e = "submit" -> "submit"
      [] e = "wait"   -> "wait"

\* C11: in every entry operation the stages run in the order build, sign,
\* submit, wait.  A stage that raises is the last one run: the error is
\* printed, the call ends raised and returns nothing.  A hash is returned,
\* and the success message printed, only after all four stages ran
\* without error; a submitted transaction whose wait raised yields no hash.
C11_StagesInOrderFailureSkipsRest ==
    op \in EntryOps =>
        /\ SelectSeq(trace, IsStage) # <<>>
        /\ IsPrefix(SelectSeq(trace, IsStage), Stages)
        /\ \A i \in 1..Len(trace) :
              trace[i] \in {"print_ok", "print_error"} => i = Len(trace)
        /\ error # "none" <=> stage = "raised"
        /\ error # "none" <=> "print_error" \in Range(trace)
        /\ error # "none" =>
              /\ ret = <<>>
              /\ trace[Len(trace) - 1] = StageOfError(error)
        /\ stage = "returned" <=> ret = <<"tx_hash">>
        /\ stage = "returned" <=> "print_ok" \in Range(trace)
        /\ stage = "returned" => trace = Stages \o <<"print_ok">>
        /\ ret # <<>> => stage = "returned"
        /\ error = "wait" => Len(submitted) = 1 /\ ret = <<>>
        /\ Len(submitted) = Len(SelectSeq(trace, LAMBDA e : e = "submit"))

C11_Witness ==
    /\ op = "register_validator"
    /\ stage = "raised"
    /\ error = "wait"
    /\ trace = Stages \o <<"print_error">>
    /\ Len(submitted) = 1
    /\ ret = <<>>

====
